---- MODULE Spec2Model ----
(***************************************************************************)
(* Model of update_spindle_speed.py: the file rewriter                     *)
(* update_file_spindle_speed and the directory walker update_spindle_speed.*)
(* File contents are sequences of one-character strings (the bytes on      *)
(* disk); text-mode open() is modelled with its newline translation.       *)
(***************************************************************************)
EXTENDS Integers, Sequences, FiniteSets, TLC

\* ------------------------------------------------------------------------
\* Characters and small text helpers
\* ------------------------------------------------------------------------
LF == "\n"
CR == "\r"

\* Python text-mode newline handling depends on os.linesep.
Platforms == {"posix", "nt"}

RECURSIVE Flatten(_)
\* "".join(lines), what file.writelines(lines) hands to the text layer
Flatten(lines) ==
    IF lines = <<>> THEN <<>> ELSE Head(lines) \o Flatten(Tail(lines))

\* str.startswith(prefix)
StartsWith(s, prefix) ==
    /\ Len(s) >= Len(prefix)
    /\ SubSeq(s, 1, Len(prefix)) = prefix

\* str.endswith(suffix)
EndsWith(s, suffix) ==
    /\ Len(s) >= Len(suffix)
    /\ SubSeq(s, Len(s) - Len(suffix) + 1, Len(s)) = suffix

\* needle in hay (substring test)
Contains(hay, needle) ==
    \E i \in 1..(Len(hay) - Len(needle) + 1) :
        SubSeq(hay, i, i + Len(needle) - 1) = needle

\* ------------------------------------------------------------------------
\* open(file_path, "r"): universal newlines on read (newline=None)
\* ------------------------------------------------------------------------
RECURSIVE Translate(_)
\* "\r\n" and lone "\r" both become "\n"
Translate(bytes) ==
    IF bytes = <<>> THEN <<>>
    ELSE IF Head(bytes) = CR
         THEN IF Len(bytes) >= 2 /\ bytes[2] = LF
              THEN <<LF>> \o Translate(SubSeq(bytes, 3, Len(bytes)))
              ELSE <<LF>> \o Translate(Tail(bytes))
         ELSE <<Head(bytes)>> \o Translate(Tail(bytes))

RECURSIVE SplitLines(_, _)
\* "for line in file": lines keep their "\n"; a last line without one is
\* yielded as is; cur is the line being accumulated
SplitLines(text, cur) ==
    IF text = <<>> THEN (IF cur = <<>> THEN <<>> ELSE <<cur>>)
    ELSE IF Head(text) = LF
         THEN <<Append(cur, LF)>> \o SplitLines(Tail(text), <<>>)
         ELSE SplitLines(Tail(text), Append(cur, Head(text)))

\* the lines the for loop of update_file_spindle_speed iterates over
ReadLines(bytes) == SplitLines(Translate(bytes), <<>>)

\* ------------------------------------------------------------------------
\* open(file_path, "w"): "\n" is written as os.linesep
\* ------------------------------------------------------------------------
RECURSIVE Encode(_, _)
Encode(text, plat) ==
    IF text = <<>> THEN <<>>
    ELSE IF Head(text) = LF /\ plat = "nt"
         THEN <<CR, LF>> \o Encode(Tail(text), plat)
         ELSE <<Head(text)>> \o Encode(Tail(text), plat)

\* ------------------------------------------------------------------------
\* update_file_spindle_speed
\* ------------------------------------------------------------------------
\* "S{} ".format(spindle_speed), the text searched for in the candidate line
MatchText(spindle_speed) == <<"S">> \o spindle_speed \o <<" ">>

\* variant: the replacement lacks the space after the speed
NewLineNoSpace(spindle_speed) == <<"S">> \o spindle_speed \o <<"M", "3", LF>>

\* variant: the replacement lacks the line terminator
NewLineNoTerminator(spindle_speed) == <<"S">> \o spindle_speed \o <<" ", "M", "3">>

\* "S{} M3\n".format(spindle_speed), the replacement line
NewLine(spindle_speed) == <<"S">> \o spindle_speed \o <<" ", "M", "3", LF>>

\* line.startswith("S")
IsSCommand(line) == StartsWith(line, <<"S">>)

\* variant: the skip test looks for the whole replacement text "S<speed> M3"
AlreadyMatchesCanonical(line, spindle_speed) ==
    Contains(line, <<"S">> \o spindle_speed \o <<" ", "M", "3">>)

\* the skip test of line 27
AlreadyMatches(line, spindle_speed) == Contains(line, MatchText(spindle_speed))

RECURSIVE RewriteLoop(_, _, _, _)
\* the for loop of lines 22-36 from the given position on; returned = TRUE
\* is the early return of line 29
RewriteLoop(lines, updated_lines, found_s_command, spindle_speed) ==
    IF lines = <<>>
    THEN [returned |-> FALSE, updated_lines |-> updated_lines]
    ELSE LET line == Head(lines) IN
         IF found_s_command
         THEN RewriteLoop(Tail(lines), Append(updated_lines, line),
                          TRUE, spindle_speed)
         ELSE IF IsSCommand(line)
              THEN IF AlreadyMatches(line, spindle_speed)
                   THEN [returned |-> TRUE, updated_lines |-> updated_lines]
                   ELSE RewriteLoop(Tail(lines),
                                    Append(updated_lines, NewLine(spindle_speed)),
                                    TRUE, spindle_speed)
              ELSE RewriteLoop(Tail(lines), Append(updated_lines, line),
                               FALSE, spindle_speed)

\* the whole call on a readable, writable file: wrote says whether the file
\* was opened for writing, content is what is on disk afterwards
update_file_spindle_speed(bytes, spindle_speed, plat) ==
    LET r == RewriteLoop(ReadLines(bytes), <<>>, FALSE, spindle_speed) IN
    IF r.returned
    THEN [wrote |-> FALSE, content |-> bytes]
    ELSE [wrote |-> TRUE,
          content |-> Encode(Flatten(r.updated_lines), plat)]

\* ------------------------------------------------------------------------
\* State
\* ------------------------------------------------------------------------
VARIABLES
    spindle_speed,   \* the text typed at the prompt (line 53)
    platform,        \* which newline convention open() applies
    \* one file under repeated calls of update_file_spindle_speed
    content,         \* bytes of the file on disk
    before,          \* bytes on disk when the last call started
    original,        \* bytes on disk before the first call
    calls,           \* completed calls
    wrote,           \* whether the last call reached open(file_path, "w")
    \* one run of update_spindle_speed over a directory tree
    tree,            \* entries (files and directories) under folder_path
    fs,              \* file path -> bytes on disk
    fs0,             \* fs before the run
    perm,            \* file path -> "rw", "r" (read-only) or "none"
    pc,              \* "start", "walk", "done" or "raised"
    error,           \* the exception that ended the run, or "none"
    total_files,     \* line 41
    processed_files, \* lines 42, 48
    todo,            \* files os.walk has yet to yield, in order
    passed,          \* paths handed to update_file_spindle_speed, in order
    divisors,        \* values of total_files the division of line 49 used
    listing          \* the order in which a directory lists its entries

fileVars == <<content, before, original, calls, wrote>>
walkVars == <<tree, fs, fs0, perm, pc, error, total_files, processed_files,
              todo, passed, divisors>>
vars == <<spindle_speed, platform, listing, fileVars, walkVars>>

\* ------------------------------------------------------------------------
\* Inputs
\* ------------------------------------------------------------------------
MaxLines == 3
MaxCalls == 2

Speeds == { <<"1">>, <<"1", "2">> }

\* line contents: a plain line, an indented S word, and two S commands, each
\* carrying one of the two speeds
LineBodies ==
    { <<"G", "1">>,
      <<" ", "S", "1", " ">>,
      <<"S", "1", "2", " ", "M", "3">>,
      <<"S", "1", " ", "M", "4">> }

LineEnds == { <<LF>>, <<CR, LF>>, <<CR>> }

TerminatedLines == { b \o e : b \in LineBodies, e \in LineEnds }

\* the last line of a file may lack its terminator
LastLines == TerminatedLines \cup LineBodies

InputFiles ==
    {<<>>} \cup
    UNION { { Flatten(f) \o l : f \in [1..(n - 1) -> TerminatedLines],
                                l \in LastLines } : n \in 1..MaxLines }

\* ------------------------------------------------------------------------
\* Repeated calls of update_file_spindle_speed on one file
\* ------------------------------------------------------------------------
WalkIdle ==
    /\ tree = {}
    /\ fs = <<>>
    /\ fs0 = <<>>
    /\ perm = <<>>
    /\ pc = "done"
    /\ error = "none"
    /\ total_files = 0
    /\ processed_files = 0
    /\ todo = <<>>
    /\ passed = <<>>
    /\ divisors = {}

FileInit ==
    /\ spindle_speed \in Speeds
    /\ platform \in Platforms
    /\ listing = <<>>
    /\ content \in InputFiles
    /\ before = content
    /\ original = content
    /\ calls = 0
    /\ wrote = FALSE
    /\ WalkIdle

UpdateFile ==
    /\ calls < MaxCalls
    /\ LET r == update_file_spindle_speed(content, spindle_speed, platform) IN
         /\ content' = r.content
         /\ wrote' = r.wrote
    /\ before' = content
    /\ calls' = calls + 1
    /\ UNCHANGED <<spindle_speed, platform, listing, original, walkVars>>

FileNext == UpdateFile

FileSpec == FileInit /\ [][FileNext]_vars

\* ------------------------------------------------------------------------
\* Directory trees
\* ------------------------------------------------------------------------
MaxEntries == 5

DotTap == <<".", "t", "a", "p">>

NameA == <<"a", ".", "t", "a", "p">>
NameC == <<"c", ".", "t", "a", "p">>
NameUpper == <<"B", ".", "T", "A", "P">>
NameTxt == <<"n", ".", "t", "x", "t">>
NameD == <<"d">>
NameE == <<"e">>
NameDirTap == <<"x", ".", "t", "a", "p">>

File(path) == [path |-> path, kind |-> "file"]
Dir(path) == [path |-> path, kind |-> "dir"]

\* the entries a tree may hold, paths relative to folder_path
Universe ==
    { File(<<NameA>>), File(<<NameC>>), File(<<NameUpper>>),
      Dir(<<NameD>>), File(<<NameD, NameC>>), File(<<NameD, NameTxt>>),
      Dir(<<NameD, NameE>>), File(<<NameD, NameE, NameA>>),
      Dir(<<NameDirTap>>), File(<<NameDirTap, NameC>>) }

Parent(path) == SubSeq(path, 1, Len(path) - 1)
BaseName(path) == path[Len(path)]

Trees ==
    { t \in SUBSET Universe :
        /\ Cardinality(t) <= MaxEntries
        /\ \A e \in t : Len(e.path) > 1 => Dir(Parent(e.path)) \in t }

FilesOf(t) == { e.path : e \in { x \in t : x.kind = "file" } }

\* two orders in which the operating system may list a directory
ListingOrders ==
    { <<NameA, NameUpper, NameC, NameTxt, NameD, NameE, NameDirTap>>,
      <<NameDirTap, NameE, NameD, NameTxt, NameC, NameUpper, NameA>> }

\* contents of .tap files: one S command carrying each speed, and a file
\* without S command
TapContents ==
    { <<"G", "1", LF, "S", "1", " ", "M", "4", LF>>,
      <<"S", "1", "2", " ", "M", "3", CR, LF, "S", "5">>,
      <<"G", "1", CR, LF>> }

\* content of every file not named *.tap
OtherContent == <<"S", "5", LF>>

Perms == {"rw", "r", "none"}

\* ------------------------------------------------------------------------
\* pathlib.Path(folder_path).rglob('*.tap')
\* ------------------------------------------------------------------------
LowerChar(c) ==
    CASE c = "A" -> "a"
      [] c = "B" -> "b"
      [] c = "P" -> "p"
      [] c = "T" -> "t"
      [] OTHER -> c

Lower(name) == [i \in 1..Len(name) |-> LowerChar(name[i])]

\* the pattern '*.tap' against one name; pathlib matches case-insensitively
\* on Windows
GlobMatch(name, plat) ==
    EndsWith(IF plat = "nt" THEN Lower(name) ELSE name, DotTap)

\* every entry below folder_path whose name matches, directories included
Rglob(t, plat) == { e \in t : GlobMatch(BaseName(e.path), plat) }

\* ------------------------------------------------------------------------
\* os.walk(folder_path) flattened to the files of the inner loop
\* ------------------------------------------------------------------------
RECURSIVE Walk(_, _, _)
RECURSIVE WalkDirs(_, _, _, _)

\* (root, dirs, files) of top, then the subdirectories top-down
Walk(top, t, order) ==
    LET files == SelectSeq(order, LAMBDA n : File(Append(top, n)) \in t)
        dirs == SelectSeq(order, LAMBDA n : Dir(Append(top, n)) \in t)
    IN  [i \in 1..Len(files) |-> Append(top, files[i])]
            \o WalkDirs(top, dirs, t, order)

WalkDirs(top, dirs, t, order) ==
    IF dirs = <<>> THEN <<>>
    ELSE Walk(Append(top, Head(dirs)), t, order)
            \o WalkDirs(top, Tail(dirs), t, order)

\* variant: the test ignores case
IsTapNameAnyCase(file) == EndsWith(Lower(file), DotTap)

\* file.endswith(".tap")
IsTapName(file) == EndsWith(file, DotTap)

\* ------------------------------------------------------------------------
\* update_file_spindle_speed on a file that may refuse to open
\* ------------------------------------------------------------------------
\* variant: a file that cannot be opened is passed over silently
RewriterCallIgnoringErrors(bytes, p, speed, plat) ==
    IF p = "rw"
    THEN [raised |-> FALSE,
          content |-> update_file_spindle_speed(bytes, speed, plat).content]
    ELSE [raised |-> FALSE, content |-> bytes]

\* open(file_path, "r") raises on an unreadable file; open(file_path, "w")
\* raises on a read-only file before truncating it, and is only reached
\* when the loop did not return early
RewriterCall(bytes, p, speed, plat) ==
    IF p = "none"
    THEN [raised |-> TRUE, content |-> bytes]
    ELSE LET r == update_file_spindle_speed(bytes, speed, plat) IN
         IF r.wrote /\ p # "rw"
         THEN [raised |-> TRUE, content |-> bytes]
         ELSE [raised |-> FALSE, content |-> r.content]

\* ------------------------------------------------------------------------
\* One run of update_spindle_speed
\* ------------------------------------------------------------------------
FileIdle ==
    /\ content = <<>>
    /\ before = <<>>
    /\ original = <<>>
    /\ calls = 0
    /\ wrote = FALSE

Init ==
    /\ spindle_speed \in Speeds
    /\ platform \in Platforms
    /\ listing \in ListingOrders
    /\ tree \in Trees
    /\ fs \in [FilesOf(tree) -> TapContents \cup {OtherContent}]
    /\ \A f \in FilesOf(tree) :
          (fs[f] = OtherContent) <=> ~EndsWith(BaseName(f), DotTap)
    /\ fs0 = fs
    /\ perm \in [FilesOf(tree) -> Perms]
    /\ \A f \in FilesOf(tree) : ~EndsWith(BaseName(f), DotTap) => perm[f] = "rw"
    /\ pc = "start"
    /\ error = "none"
    /\ total_files = 0
    /\ processed_files = 0
    /\ todo = <<>>
    /\ passed = <<>>
    /\ divisors = {}
    /\ FileIdle

\* lines 41-43: count, reset the counter, start the walk
Start ==
    /\ pc = "start"
    /\ total_files' = Cardinality(Rglob(tree, platform))
    /\ processed_files' = 0
    /\ todo' = Walk(<<>>, tree, listing)
    /\ pc' = "walk"
    /\ UNCHANGED <<spindle_speed, platform, listing, fileVars, tree, fs, fs0,
                   perm, error, passed, divisors>>

\* lines 44-50: one iteration of "for file in files"
VisitFile ==
    /\ pc = "walk"
    /\ todo # <<>>
    /\ LET file_path == Head(todo) IN
       IF ~IsTapName(BaseName(file_path))
       THEN /\ todo' = Tail(todo)
            /\ UNCHANGED <<fs, pc, error, processed_files, passed, divisors>>
       ELSE LET r == RewriterCall(fs[file_path], perm[file_path],
                                  spindle_speed, platform) IN
            /\ passed' = Append(passed, file_path)
            /\ fs' = [fs EXCEPT ![file_path] = r.content]
            /\ IF r.raised
               THEN /\ pc' = "raised"
                    /\ error' = "OSError"
                    /\ UNCHANGED <<processed_files, todo, divisors>>
               ELSE /\ processed_files' = processed_files + 1
                    /\ IF total_files = 0
                       THEN /\ pc' = "raised"
                            /\ error' = "ZeroDivisionError"
                            /\ UNCHANGED <<todo, divisors>>
                       ELSE /\ divisors' = divisors \cup {total_files}
                            /\ todo' = Tail(todo)
                            /\ UNCHANGED <<pc, error>>
    /\ UNCHANGED <<spindle_speed, platform, listing, fileVars, tree, fs0, perm,
                   total_files>>

\* os.walk is exhausted and update_spindle_speed returns
Finish ==
    /\ pc = "walk"
    /\ todo = <<>>
    /\ pc' = "done"
    /\ UNCHANGED <<spindle_speed, platform, listing, fileVars, tree, fs, fs0,
                   perm, error, total_files, processed_files, todo, passed,
                   divisors>>

\* the run is interrupted outside a visit: before line 41, before line 43
\* or between two iterations of "for file in files"
Interrupt ==
    /\ pc \in {"start", "walk"}
    /\ pc' = "raised"
    /\ error' = "KeyboardInterrupt"
    /\ UNCHANGED <<spindle_speed, platform, listing, fileVars, tree, fs, fs0,
                   perm, total_files, processed_files, todo, passed, divisors>>

\* the run is interrupted inside the call of line 47 before the file is
\* opened for writing (lines 18-36): the file is as it was
InterruptRead ==
    /\ pc = "walk"
    /\ todo # <<>>
    /\ IsTapName(BaseName(Head(todo)))
    /\ passed' = Append(passed, Head(todo))
    /\ pc' = "raised"
    /\ error' = "KeyboardInterrupt"
    /\ UNCHANGED <<spindle_speed, platform, listing, fileVars, tree, fs, fs0,
                   perm, total_files, processed_files, todo, divisors>>

\* the run is interrupted inside lines 37-38: open(file_path, "w") has
\* truncated the file and writelines has emitted none, some or all of the
\* lines, which leaving the with block flushes
InterruptWrite ==
    /\ pc = "walk"
    /\ todo # <<>>
    /\ LET file_path == Head(todo)
           r == RewriteLoop(ReadLines(fs[file_path]), <<>>, FALSE,
                            spindle_speed)
       IN  /\ IsTapName(BaseName(file_path))
           /\ perm[file_path] = "rw"
           /\ ~r.returned
           /\ \E n \in 0..Len(r.updated_lines) :
                fs' = [fs EXCEPT ![file_path] =
                          Encode(Flatten(SubSeq(r.updated_lines, 1, n)),
                                 platform)]
           /\ passed' = Append(passed, file_path)
    /\ pc' = "raised"
    /\ error' = "KeyboardInterrupt"
    /\ UNCHANGED <<spindle_speed, platform, listing, fileVars, tree, fs0, perm,
                   total_files, processed_files, todo, divisors>>

\* the run is interrupted after the call of line 47 returned and before the
\* division of line 49: before or after "processed_files += 1"
InterruptCount ==
    /\ pc = "walk"
    /\ todo # <<>>
    /\ LET file_path == Head(todo)
           r == RewriterCall(fs[file_path], perm[file_path],
                             spindle_speed, platform)
       IN  /\ IsTapName(BaseName(file_path))
           /\ ~r.raised
           /\ fs' = [fs EXCEPT ![file_path] = r.content]
           /\ passed' = Append(passed, file_path)
    /\ processed_files' \in {processed_files, processed_files + 1}
    /\ pc' = "raised"
    /\ error' = "KeyboardInterrupt"
    /\ UNCHANGED <<spindle_speed, platform, listing, fileVars, tree, fs0, perm,
                   total_files, todo, divisors>>

Next ==
    \/ Start
    \/ VisitFile
    \/ Finish
    \/ Interrupt
    \/ InterruptRead
    \/ InterruptWrite
    \/ InterruptCount

Spec == Init /\ [][Next]_vars

\* ------------------------------------------------------------------------
\* Properties of update_file_spindle_speed (checked under FileSpec)
\* ------------------------------------------------------------------------
RECURSIVE RawSplit(_, _)
\* the lines of a file as stored: each keeps its own terminator
\* ("\n", "\r\n" or "\r") untranslated
RawSplit(bytes, cur) ==
    IF bytes = <<>> THEN (IF cur = <<>> THEN <<>> ELSE <<cur>>)
    ELSE IF Head(bytes) = CR /\ Len(bytes) >= 2 /\ bytes[2] = LF
         THEN <<cur \o <<CR, LF>>>> \o RawSplit(SubSeq(bytes, 3, Len(bytes)), <<>>)
         ELSE IF Head(bytes) \in {CR, LF}
              THEN <<Append(cur, Head(bytes))>> \o RawSplit(Tail(bytes), <<>>)
              ELSE RawSplit(Tail(bytes), Append(cur, Head(bytes)))

RawLines(bytes) == RawSplit(bytes, <<>>)

\* position of the first line starting with "S", 0 when there is none
FirstS(lines) ==
    IF \E i \in 1..Len(lines) : StartsWith(lines[i], <<"S">>)
    THEN CHOOSE i \in 1..Len(lines) :
            /\ StartsWith(lines[i], <<"S">>)
            /\ \A j \in 1..(i - 1) : ~StartsWith(lines[j], <<"S">>)
    ELSE 0

\* positions at which two line sequences of equal length differ
DiffPositions(a, b) == { i \in 1..Len(a) : a[i] # b[i] }

SpeedText == <<"S">> \o spindle_speed \o <<" ">>
CanonicalText == <<"S">> \o spindle_speed \o <<" ", "M", "3">>
CanonicalLine == <<"S">> \o spindle_speed \o <<" ", "M", "3", LF>>

\* the last call ran on a file that had a line starting with "S"
CalledOnSFile == calls >= 1 /\ FirstS(ReadLines(before)) # 0

\* the first line starting with "S" the last call saw
Candidate == ReadLines(before)[FirstS(ReadLines(before))]

\* C1 (as amended): on a file with a line starting with "S", the call skips
\* the file without writing iff the first such line contains "S<speed> "
\* (the speed followed by a space); otherwise that line is rewritten.
C1_SkipIffSpeedText ==
    CalledOnSFile =>
        /\ ~wrote <=> Contains(Candidate, SpeedText)
        /\ ~wrote => content = before
        /\ wrote => ReadLines(content)[FirstS(ReadLines(before))] = CanonicalLine

\* C1 (as claimed): the call skips iff the first line starting with "S"
\* contains the canonical text "S<speed> M3".
C1_SkipIffCanonicalText ==
    CalledOnSFile =>
        /\ ~wrote <=> Contains(Candidate, CanonicalText)
        /\ ~wrote => content = before

\* a file whose candidate line has the speed but not " M3" was skipped
C1_Witness ==
    /\ CalledOnSFile
    /\ ~wrote
    /\ Contains(Candidate, SpeedText)
    /\ ~Contains(Candidate, CanonicalText)

\* C2 (as claimed, for a call that rewrites): after a call on a file with a
\* line starting with "S" that does not return early, exactly one stored
\* line differs from the original, the first line starting with "S", and
\* every line after it is identical to the original. A call that returns
\* early changes nothing and is left out, so that a violation is a line
\* other than the candidate that the code changed.
C2_OnlyCandidateDiffers ==
    (CalledOnSFile /\ wrote) =>
        LET a == RawLines(before)
            b == RawLines(content)
            k == FirstS(ReadLines(before))
        IN  /\ Len(a) = Len(b)
            /\ DiffPositions(a, b) = {k}
            /\ \A i \in (k + 1)..Len(a) : a[i] = b[i]

\* C3 (as claimed): the stored lines are equally many before and after a
\* call, every line but the first starting with "S" is the same at its
\* position, and a file without such a line is unchanged.
C3_OtherLinesUntouched ==
    calls >= 1 =>
        LET a == RawLines(before)
            b == RawLines(content)
            k == FirstS(ReadLines(before))
        IN  /\ Len(a) = Len(b)
            /\ \A i \in 1..Len(a) : i # k => a[i] = b[i]
            /\ k = 0 => content = before

\* C4: after a completed call on a file with a line starting with "S", a
\* further call with the same speed does not write and leaves the content
\* as the earlier call left it.
C4_SecondCallSkips ==
    (calls >= 2 /\ FirstS(ReadLines(original)) # 0) =>
        /\ ~wrote
        /\ content = before

\* the first call rewrote the file and a second call followed
C4_Witness ==
    /\ calls = 2
    /\ FirstS(ReadLines(original)) # 0
    /\ content # original

\* C5: when the call does not skip, the first line starting with "S" becomes
\* exactly "S<speed> M3" and a line terminator, nothing of the old line kept.
C5_CandidateReplaced ==
    (CalledOnSFile /\ wrote) =>
        LET k == FirstS(ReadLines(before)) IN
        /\ ReadLines(content)[k] = CanonicalLine
        /\ RawLines(content)[k] =
               CanonicalText \o (IF platform = "nt" THEN <<CR, LF>> ELSE <<LF>>)

\* the rewritten candidate was an unterminated last line "S1 M4"
C5_Witness ==
    /\ calls = 1
    /\ CalledOnSFile
    /\ wrote
    /\ LET a == ReadLines(before) IN
         /\ FirstS(a) = Len(a)
         /\ a[Len(a)] = <<"S", "1", " ", "M", "4">>

\* ------------------------------------------------------------------------
\* Properties of update_spindle_speed (checked under Spec)
\* ------------------------------------------------------------------------
\* how often a path occurs in a sequence of paths
Occurrences(seq, x) == Cardinality({ i \in 1..Len(seq) : seq[i] = x })

\* files whose names end with ".tap"
TapFiles == { f \in FilesOf(tree) : EndsWith(BaseName(f), DotTap) }

\* the call on this content has to open the file for writing
NeedsWrite(bytes) ==
    LET a == ReadLines(bytes) IN
    FirstS(a) = 0 \/ ~Contains(a[FirstS(a)], SpeedText)

\* the call on this file raises an I/O error
CallFails(f) ==
    \/ perm[f] = "none"
    \/ perm[f] = "r" /\ NeedsWrite(fs0[f])

\* what a completed call leaves in the file
Updated(f) == update_file_spindle_speed(fs0[f], spindle_speed, platform).content

\* C6: when a run completes, every file whose name ends with ".tap" has
\* been passed to update_file_spindle_speed exactly once, at any depth, and
\* no other file or directory has been passed.
C6_TraversalComplete ==
    pc = "done" =>
        /\ \A f \in FilesOf(tree) :
              Occurrences(passed, f) =
                  (IF EndsWith(BaseName(f), DotTap) THEN 1 ELSE 0)
        /\ \A i \in 1..Len(passed) : passed[i] \in FilesOf(tree)

\* a completed run over a tree with a .tap file three levels down, a .tap
\* file at the top and a file of another name
C6_Witness ==
    /\ pc = "done"
    /\ \E f \in TapFiles : Len(f) = 3
    /\ \E f \in TapFiles : Len(f) = 1
    /\ FilesOf(tree) # TapFiles

\* C7 (as claimed): the processed count never exceeds the total and equals
\* it when the traversal completes.
C7_CountReachesTotal ==
    /\ processed_files <= total_files
    /\ pc = "done" => processed_files = total_files

\* C8: a call that fails with an I/O error ends the run with that error:
\* nothing is passed after the failing file, the count leaves the failing
\* file out, earlier files hold their updated content and files not yet
\* reached hold their original content; no run goes on past a file on which
\* the call fails.
C8_ErrorHaltsRun ==
    /\ error = "OSError" =>
          /\ pc = "raised"
          /\ passed # <<>>
          /\ CallFails(passed[Len(passed)])
          /\ processed_files = Len(passed) - 1
          /\ \A j \in 1..(Len(passed) - 1) : fs[passed[j]] = Updated(passed[j])
          /\ \A f \in FilesOf(tree) :
                Occurrences(passed, f) = 0 => fs[f] = fs0[f]
    /\ \A i \in 1..Len(passed) :
          CallFails(passed[i]) =>
              /\ i = Len(passed)
              /\ pc = "raised"
              /\ processed_files = i - 1

\* a run that failed on its second .tap file, after rewriting the first and
\* before reaching a third
C8_Witness ==
    /\ pc = "raised"
    /\ error = "OSError"
    /\ Len(passed) = 2
    /\ fs[passed[1]] # fs0[passed[1]]
    /\ \E i \in 2..Len(todo) : EndsWith(BaseName(todo[i]), DotTap)

\* C9 (as claimed): when a run is interrupted, every .tap file holds either
\* its original content or the content of a completed rewrite.
C9_InterruptLeavesWholeFiles ==
    (pc = "raised" /\ error = "KeyboardInterrupt") =>
        \A f \in TapFiles : fs[f] \in {fs0[f], Updated(f)}

\* C10 (as claimed): a run over a tree without files ending in ".tap"
\* completes with total 0 and processed count 0, calls the rewriter on no
\* file and does not divide; no run ever divides by a total below 1.
C10_NoTapFilesNoDivision ==
    /\ (pc = "done" /\ TapFiles = {}) =>
          /\ total_files = 0
          /\ processed_files = 0
          /\ passed = <<>>
          /\ divisors = {}
    /\ \A d \in divisors : d >= 1
    /\ error # "ZeroDivisionError"

====
